---- MODULE Spec2Model ----
(***************************************************************************)
(* CONMINdriver (openmdao.lib/drivers/conmindriver.py): a driver that      *)
(* wraps the Fortran CONMIN optimizer.  CONMIN keeps its working state in  *)
(* two process-wide common blocks, conmin.cnmn1 and conmin.consav; every   *)
(* driver instance keeps a record of both (self.cnmn1, self.consav) that   *)
(* it loads into the common blocks before a kernel call and saves after.   *)
(*                                                                         *)
(* The model holds two driver instances over one pair of common blocks.    *)
(* An instance is a record; the code's methods are operators from          *)
(* (instance, common blocks) to (instance, common blocks), and the actions *)
(* apply them at the instance's position in execute().                     *)
(*                                                                         *)
(* Abstractions, all stated here:                                          *)
(*  - floats are small integers; 1.e99 is PosInf, -1.e99 NegInf, and       *)
(*    dabfun's 1.e-8 is the unit of Dabfun;                                *)
(*  - cnmn1 and consav are modelled by the fields that are read by the     *)
(*    driver plus representatives of every kind of consav field (a real    *)
(*    scalar, integer scalars, both integer pairs); the other fields are   *)
(*    set, loaded and saved by the same statements;                        *)
(*  - of the working arrays that the driver only allocates, the model      *)
(*    keeps the shape;                                                     *)
(*  - the kernel conmin.conmin is external: it is a function Conmin of the *)
(*    common blocks, its arguments and a scripted outcome.                 *)
(***************************************************************************)
EXTENDS Integers, Sequences, FiniteSets, TLC

\* ------------------------------------------------------------ bounds
MaxDvs == 2
MaxCons == 1
MaxVal == 1
MaxCalls == 2
MaxIter == 2
MaxRuns == 2

Inst == {"A", "B"}
VarNames == {"objective", "constraints", "design_vars", "upper_bounds", "lower_bounds"}

\* ------------------------------------------------------------ numbers
PosInf == 999
NegInf == -999
Dabfun == 1
DefaultMaxiters == 40
DefaultIprint == 0

Max(a, b) == IF a >= b THEN a ELSE b
Min(a, b) == IF a <= b THEN a ELSE b
Zeros(n) == [k \in 1..n |-> 0]

\* ------------------------------------------------------------ common blocks
\* The common block /cnmn1/ as the driver sees it: every field here is
\* assigned by _config_conmin or execute.
ZeroCnmn1 ==
    [ndv |-> 0, ncon |-> 0, nside |-> 0, nacmx1 |-> 0,
     infog |-> 0, info |-> 0, nfdg |-> 0, dabfun |-> 0, ct |-> 0,
     igoto |-> 0, nac |-> 0, iter |-> 0, obj |-> 0,
     iprint |-> 0, itmax |-> 0]

\* The common block /consav/: dm1 stands for the real scalars, jgoto and
\* kcount for the integer scalars; ncal and ispace are the two integer pairs.
ZeroConsav ==
    [dm1 |-> 0, jgoto |-> 0, kcount |-> 0, ncal |-> <<0, 0>>, ispace |-> <<0, 0>>]

\* The Fortran common blocks of a fresh process.
ZeroBlocks == [cnmn1 |-> ZeroCnmn1, consav |-> ZeroConsav]

\* self.cnmn1 as the code reads it: after __setstate__ the attribute is the
\* module's own common block object, otherwise the instance's _datastructure.
Cnmn1(s, g) == IF s.shared THEN g.cnmn1 ELSE s.cnmn1

\* An assignment self.cnmn1.<field> = ...: it lands in the common block when
\* self.cnmn1 is that object.
SetCnmn1(s, g, rec) ==
    IF s.shared THEN [s |-> s, g |-> [g EXCEPT !.cnmn1 = rec]]
    ELSE [s |-> [s EXCEPT !.cnmn1 = rec], g |-> g]

\* _load_common_blocks with the cnmn1 loop left out.
load_consav_only(s, g) == [g EXCEPT !.consav = s.consav]

\* _load_common_blocks with the consav loop left out.
load_cnmn1_only(s, g) == [g EXCEPT !.cnmn1 = Cnmn1(s, g)]

\* _load_common_blocks: every field of self.cnmn1 and of self.consav is set
\* on conmin.cnmn1 and conmin.consav.
load_common_blocks(s, g) == [cnmn1 |-> Cnmn1(s, g), consav |-> s.consav]

\* _save_common_blocks with the consav loop left out.
save_cnmn1_only(s, g) == IF s.shared THEN s ELSE [s EXCEPT !.cnmn1 = g.cnmn1]

\* _save_common_blocks: every field of conmin.cnmn1 and conmin.consav is set
\* on self.cnmn1 and self.consav.
save_common_blocks(s, g) ==
    IF s.shared THEN [s EXCEPT !.consav = g.consav]
    ELSE [s EXCEPT !.cnmn1 = g.cnmn1, !.consav = g.consav]

\* ------------------------------------------------------------ the instance
\* CONMINdriver.__init__: the records are filled from the common blocks as
\* they are at construction, the working arrays get their placeholder sizes,
\* the framework variables are empty and not yet valid.
\*   design_vals, lbw (_lower_bounds), ubw (_upper_bounds), constraint_vals
\*   are kept with their values; gradients and b (_b) are shapes; nvec is the
\*   length of scal, df and s; ncvec of g1, g2 and cons_is_linear; c (_c),
\*   ms1 (_ms1) and ic (cons_active_or_violated) are lengths.
\*   ndvs, refs, ncons, objective, lower_bounds, upper_bounds and invalid are
\*   the framework variables design_vars (with the values its references
\*   hold in the model), constraints, objective and the two bound arrays.
\*   outcome, calls, dvFetch, objFetch, conFetch, sizing, stale, refs0, ret
\*   and script record what the current run has done: how it ended, how
\*   often it called the kernel and evaluated what, whether it sized ("none",
\*   "done", "failed"), whether it found one of the five variables invalid,
\*   the design variables' values at its start, the vector and the codes its
\*   kernel calls returned.  kept is the content
\*   of the common blocks when the instance's last kernel call returned.
NewDriver(g) ==
    [pc |-> "idle", first |-> TRUE, stop |-> FALSE, shared |-> FALSE,
     cnmn1 |-> g.cnmn1, consav |-> g.consav,
     design_vals |-> <<>>, lbw |-> <<>>, ubw |-> <<>>, constraint_vals |-> <<>>,
     gradients |-> <<2, 1>>, b |-> <<1, 1>>, c |-> 1, ms1 |-> 2, ic |-> 0,
     nvec |-> 2, ncvec |-> 0,
     iprint |-> DefaultIprint, maxiters |-> DefaultMaxiters,
     ndvs |-> 0, refs |-> <<>>, ncons |-> 0, objective |-> FALSE,
     lower_bounds |-> <<>>, upper_bounds |-> <<>>, invalid |-> VarNames,
     outcome |-> "none", calls |-> 0, dvFetch |-> 0, objFetch |-> 0,
     conFetch |-> 0, sizing |-> "none", stale |-> FALSE, refs0 |-> <<>>, ret |-> <<>>,
     script |-> <<>>, kept |-> <<>>]

\* ------------------------------------------------------------ sizing
\* Lines 190-211 without the two trailing slots.
BoundArrayNoPad(bounds, n, sentinel) ==
    IF Len(bounds) > 0 THEN bounds ELSE [k \in 1..n |-> sentinel]

\* Lines 190-211: the working array of one bound: the supplied values (or
\* the sentinel, num_dvs times) and two trailing zeros.
BoundArray(bounds, n, sentinel) ==
    IF Len(bounds) > 0
    THEN [k \in 1..(Len(bounds) + 2) |-> IF k <= Len(bounds) THEN bounds[k] ELSE 0]
    ELSE [k \in 1..(n + 2) |-> IF k <= n THEN sentinel ELSE 0]

\* Lines 192 and 204 as a test for too many bounds only.
BoundTooLong(bounds, n) == Len(bounds) > n

\* Lines 192 and 204: a supplied bound array of the wrong length.
BoundMismatch(bounds, n) == Len(bounds) > 0 /\ Len(bounds) # n

\* Lines 231-234: the side-constraint count.
Nside(lbw, ubw, n) == IF ~(Len(lbw) = 0) \/ ~(Len(ubw) = 0) THEN 2 * n ELSE 0

\* The side-constraint count this sizing has just stored in self.cnmn1.
NacmxOwnSide(s, g, n, m) == Max(n, m + Cnmn1(s, g).nside) + 1

\* Lines 236-237: nacmx1, from conmin.cnmn1.nside, the common block's field.
Nacmx1(s, g, n, m) == Max(n, m + g.cnmn1.nside) + 1

\* Lines 179-181: ndv and design_vals.
size_design_vals(s, g) ==
    SetCnmn1([s EXCEPT !.design_vals = Zeros(s.ndvs + 2)], g,
             [Cnmn1(s, g) EXCEPT !.ndv = s.ndvs])

\* Lines 190-198: _lower_bounds; on a mismatch it is left allocated, of the
\* supplied length plus two, and unfilled.
size_lower(r) ==
    [s |-> [r.s EXCEPT !.lbw =
               IF BoundMismatch(r.s.lower_bounds, r.s.ndvs)
               THEN Zeros(Len(r.s.lower_bounds) + 2)
               ELSE BoundArray(r.s.lower_bounds, r.s.ndvs, NegInf)],
     g |-> r.g]

\* Lines 202-211: _upper_bounds, likewise.
size_upper(r) ==
    [s |-> [r.s EXCEPT !.ubw =
               IF BoundMismatch(r.s.upper_bounds, r.s.ndvs)
               THEN Zeros(Len(r.s.upper_bounds) + 2)
               ELSE BoundArray(r.s.upper_bounds, r.s.ndvs, PosInf)],
     g |-> r.g]

\* Lines 213-227: scal, df, s and the constraint arrays.
size_constraints(r) ==
    [s |-> [r.s EXCEPT !.nvec = r.s.ndvs + 2,
                       !.constraint_vals = Zeros(r.s.ncons + 2 * r.s.ndvs),
                       !.ncvec = r.s.ncons + 2 * r.s.ndvs],
     g |-> r.g]

\* Lines 229-234: ncon and nside.
size_counts(r) ==
    SetCnmn1(r.s, r.g,
             [Cnmn1(r.s, r.g) EXCEPT !.ncon = r.s.ncons,
                                     !.nside = Nside(r.s.lbw, r.s.ubw, r.s.ndvs)])

\* Lines 238-251: the arrays sized by n1 = num_dvs + 2, n3 = nacmx1,
\* n4 = max(n3, num_dvs) and n5 = 2 * n4.
Scratch(s, n, n3) ==
    [s EXCEPT !.ic = n3, !.gradients = <<n + 2, n3>>, !.b = <<n3, n3>>,
              !.c = Max(n3, n), !.ms1 = 2 * Max(n3, n)]

\* Lines 236-251: nacmx1 and the arrays sized from it.
size_scratch(r) ==
    [s |-> Scratch(r.s, r.s.ndvs, Cnmn1(r.s, r.g).nacmx1), g |-> r.g]

\* Lines 236-237: self.cnmn1.nacmx1 is assigned.
size_nacmx1(r) ==
    SetCnmn1(r.s, r.g,
             [Cnmn1(r.s, r.g) EXCEPT !.nacmx1 = Nacmx1(r.s, r.g, r.s.ndvs, r.s.ncons)])

\* Lines 253-277: the scalars of cnmn1 that every sizing resets; iprint and
\* itmax come from the driver's public variables.
ResetScalars(c, s) ==
    [c EXCEPT !.infog = 0, !.info = 0, !.nfdg = 0,
              !.ct = 0, !.dabfun = Dabfun, !.igoto = 0, !.nac = 0, !.iter = 0,
              !.iprint = s.iprint, !.itmax = s.maxiters]

reset_scalars(r) == SetCnmn1(r.s, r.g, ResetScalars(Cnmn1(r.s, r.g), r.s))

\* Lines 283-355 with the reset of consav left out.
KeepConsav(c) == c

\* Lines 283-355: every field of self.consav is zeroed.
ResetConsav(c) == ZeroConsav

reset_consav(r) == [s |-> [r.s EXCEPT !.consav = ResetConsav(r.s.consav)], g |-> r.g]

Raised(r, e) == [s |-> r.s, g |-> r.g, err |-> e]

\* The one element of a set of one.
Only(S) == CHOOSE x \in S : TRUE

\* Lines 179-355 when nothing is raised: the statements in their order, each
\* applied to what the one before it left.
Sized(s, g) ==
    {reset_consav(r8) : r8 \in
    {reset_scalars(r7) : r7 \in
    {size_scratch(r6) : r6 \in
    {size_nacmx1(r5) : r5 \in
    {size_counts(r4) : r4 \in
    {size_constraints(r3) : r3 \in
    {size_upper(r2) : r2 \in
    {size_lower(r1) : r1 \in {size_design_vals(s, g)}}}}}}}}}

\* _config_conmin, in the order of its statements; err is the exception it
\* raises, and what it assigned before raising stays assigned.
config_conmin(s, g) ==
    IF s.ndvs < 1 THEN Raised(size_design_vals(s, g), "RuntimeError")
    ELSE IF ~s.objective THEN Raised(size_design_vals(s, g), "RuntimeError")
    ELSE IF BoundMismatch(s.lower_bounds, s.ndvs)
         THEN Raised(size_lower(size_design_vals(s, g)), "ValueError")
    ELSE IF BoundMismatch(s.upper_bounds, s.ndvs)
         THEN Raised(size_upper(size_lower(size_design_vals(s, g))), "ValueError")
    ELSE Raised(Only(Sized(s, g)), "none")

\* ------------------------------------------------------------ the kernel
\* The info codes execute tests for, lines 163 and 169.
InfoConstraints == 1
InfoGradients == 2

\* What one call of the external routine may return: the continuation code
\* igoto (zero, or not) and the info code (the two above, or another).
KernelOutcomes == [igoto : {0, 1}, info : 0..InfoGradients]

\* conmin.conmin(design_vals, ...) at lines 142-154: a function of the common
\* blocks and the design vector.  It advances its counters in both blocks,
\* keeps the objective it was given, stores the two codes, moves the first
\* len-2 entries of the vector and uses the last two as its own slots.
Conmin(g, x, out) ==
    LET it == Min(g.cnmn1.iter + 1, MaxIter)
        kc == Min(g.consav.kcount + 1, MaxIter)
    IN  [g |-> [cnmn1 |-> [g.cnmn1 EXCEPT !.igoto = out.igoto, !.info = out.info,
                                          !.iter = it],
                consav |-> [g.consav EXCEPT !.dm1 = g.cnmn1.obj, !.jgoto = out.igoto,
                                            !.kcount = kc,
                                            !.ncal = <<kc, g.consav.ncal[2]>>]],
         x |-> [k \in 1..Len(x) |->
                  IF k <= Len(x) - 2 THEN (x[k] + 1) % (MaxVal + 1) ELSE kc]]

\* ------------------------------------------------------------ execute
\* An exception that is recorded and does not leave execute.
EndRunGoesOn(s, how) == [s EXCEPT !.outcome = how]

\* How a run ends: the exception that leaves execute, or "Finished".
EndRun(s, how) == [s EXCEPT !.pc = "ended", !.outcome = how]

\* Line 111 with 'lower_bounds' missing from the list.
NeedsSizingNoLower(s) == \E v \in VarNames \ {"lower_bounds"} : v \in s.invalid

\* Line 111: not all(valid) over the five variables.
NeedsSizing(s) == \E v \in VarNames : v \in s.invalid

\* Driver._pre_execute (the base class): the inputs are brought up to date.
base_pre_execute(s) ==
    [s EXCEPT !.invalid = {}, !.pc = "execute", !.refs0 = s.refs]

\* _pre_execute, lines 106-113.
pre_execute(s) ==
    base_pre_execute([s EXCEPT !.first = NeedsSizing(s), !.stale = (s.invalid # {})])

\* Line 120: self.cnmn1.igoto = 0.
clear_igoto(s, g) == SetCnmn1(s, g, [Cnmn1(s, g) EXCEPT !.igoto = 0])

\* What execute goes on with after _config_conmin.
after_config(r, z) ==
    IF r.err # "none"
    THEN [s |-> [EndRun(r.s, r.err) EXCEPT !.sizing = "failed"], g |-> r.g]
    ELSE [s |-> [z.s EXCEPT !.pc = "get_dvs", !.sizing = "done"], g |-> z.g]

sized_then(r) == after_config(r, clear_igoto(r.s, r.g))

\* Lines 118-120 when _first is True: sizing, then igoto = 0.
execute_sizing(s, g) == sized_then(config_conmin(s, g))

\* The step that follows clear_igoto when there was no sizing.
to_get_dvs(z) == [s |-> [z.s EXCEPT !.pc = "get_dvs"], g |-> z.g]

\* Lines 118-120 when _first is not True: igoto = 0 alone.
execute_no_sizing(s, g) == to_get_dvs(clear_igoto(s, g))

\* Lines 123-124: the design variables' values are copied into design_vals.
get_dvs(s, g, fails) ==
    IF fails THEN [s |-> EndRun(s, "CollaboratorError"), g |-> g]
    ELSE IF Len(s.refs) > Len(s.design_vals)
         THEN [s |-> EndRun(s, "IndexError"), g |-> g]
    ELSE [s |-> [s EXCEPT !.design_vals =
                     [k \in 1..Len(s.design_vals) |->
                        IF k <= Len(s.refs) THEN s.refs[k] ELSE s.design_vals[k]],
                          !.dvFetch = s.dvFetch + 1, !.pc = "loop"],
          g |-> g]

\* Line 127 as a test of info in place of igoto.
LoopsOnInfo(s, g) == Cnmn1(s, g).info = InfoConstraints \/ s.first = TRUE

\* Line 127 as 'while self.cnmn1.igoto:' alone.
LoopsOnIgotoOnly(s, g) == Cnmn1(s, g).igoto # 0

\* Line 127: the loop condition.
Loops(s, g) == Cnmn1(s, g).igoto # 0 \/ s.first = TRUE

\* Lines 127-131 with the stop check skipped in the first turn of the loop.
loop_head_stop_later(s, g) ==
    IF ~Loops(s, g) THEN [s |-> EndRun(s, "Finished"), g |-> g]
    ELSE IF s.stop /\ s.first # TRUE THEN [s |-> EndRun(s, "RunStopped"), g |-> g]
    ELSE [s |-> [s EXCEPT !.first = FALSE, !.pc = "get_obj"], g |-> g]

\* Lines 127-131 with the stop check left out.
loop_head_no_stop(s, g) ==
    IF ~Loops(s, g) THEN [s |-> EndRun(s, "Finished"), g |-> g]
    ELSE [s |-> [s EXCEPT !.first = FALSE, !.pc = "get_obj"], g |-> g]

\* Lines 127-131: leave the loop, or stop on request, or go on.
loop_head(s, g) ==
    IF ~Loops(s, g) THEN [s |-> EndRun(s, "Finished"), g |-> g]
    ELSE IF s.stop THEN [s |-> EndRun(s, "RunStopped"), g |-> g]
    ELSE [s |-> [s EXCEPT !.first = FALSE, !.pc = "get_obj"], g |-> g]

\* The model the driver optimizes: its objective is the sum of the design
\* variables, each constraint that sum less one.
RECURSIVE SumSeq(_)
SumSeq(x) == IF x = <<>> THEN 0 ELSE Head(x) + SumSeq(Tail(x))
ObjectiveValue(refs) == SumSeq(refs)
ConstraintValue(refs) == SumSeq(refs) - 1

\* Line 137: the objective is evaluated and stored in self.cnmn1.obj.
get_obj(s, g, fails) ==
    IF fails THEN [s |-> EndRun(s, "CollaboratorError"), g |-> g]
    ELSE LET z == SetCnmn1(s, g, [Cnmn1(s, g) EXCEPT !.obj = ObjectiveValue(s.refs)])
         IN  [s |-> [z.s EXCEPT !.objFetch = s.objFetch + 1, !.pc = "load"], g |-> z.g]

\* Line 140.
do_load(s, g) == [s |-> [s EXCEPT !.pc = "call"], g |-> load_common_blocks(s, g)]

\* Lines 142-154: the call; design_vals is rebound to the returned vector.
do_call(s, g, out) ==
    LET r == Conmin(g, s.design_vals, out)
    IN  [s |-> [s EXCEPT !.design_vals = r.x, !.ret = r.x,
                         !.calls = s.calls + 1, !.script = Append(s.script, out),
                         !.kept = <<r.g>>, !.pc = "save"],
         g |-> r.g]

\* Line 157.
do_save(s, g) == [s |-> [save_common_blocks(s, g) EXCEPT !.pc = "set_dvs"], g |-> g]

\* Line 160 with the whole vector written back.
WriteBackAll(x) == x

\* Line 160: design_vals[:-2].
WriteBack(x) == IF Len(x) >= 2 THEN SubSeq(x, 1, Len(x) - 2) ELSE <<>>

\* Line 160: the design variables of the model are assigned.
set_dvs(s, g) ==
    [s |-> [s EXCEPT !.refs = WriteBack(s.design_vals), !.pc = "check_info"], g |-> g]

\* Lines 163-171 with the constraints not evaluated.
check_info_no_cons(s, g) ==
    IF Cnmn1(s, g).info = InfoGradients
    THEN [s |-> EndRun(s, "NotImplementedError"), g |-> g]
    ELSE [s |-> [s EXCEPT !.pc = "loop"], g |-> g]

\* Lines 163-171 with the gradient request ignored.
check_info_no_raise(s, g) ==
    IF Cnmn1(s, g).info = InfoConstraints THEN [s |-> [s EXCEPT !.pc = "get_cons"], g |-> g]
    ELSE [s |-> [s EXCEPT !.pc = "loop"], g |-> g]

\* Lines 163, 169-171: the branch on self.cnmn1.info.
check_info(s, g) ==
    IF Cnmn1(s, g).info = InfoConstraints THEN [s |-> [s EXCEPT !.pc = "get_cons"], g |-> g]
    ELSE IF Cnmn1(s, g).info = InfoGradients
         THEN [s |-> EndRun(s, "NotImplementedError"), g |-> g]
    ELSE [s |-> [s EXCEPT !.pc = "loop"], g |-> g]

\* Lines 165-166: the constraints are evaluated into constraint_vals.
get_cons(s, g, fails) ==
    IF fails THEN [s |-> EndRun(s, "CollaboratorError"), g |-> g]
    ELSE [s |-> [s EXCEPT !.constraint_vals =
                     [k \in 1..Len(s.constraint_vals) |->
                        IF k <= s.ncons THEN ConstraintValue(s.refs)
                        ELSE s.constraint_vals[k]],
                          !.conFetch = s.conFetch + 1, !.pc = "loop"],
          g |-> g]

\* ------------------------------------------------------------ pickling
\* The value that stands for state['cnmn1'] = None.
NoCnmn1 == ZeroCnmn1

\* __getstate__, lines 94-98: the instance's state without cnmn1.
getstate(s) == [s EXCEPT !.cnmn1 = NoCnmn1]

\* __setstate__ keeping a record of its own: cnmn1 filled from the blocks.
setstate_private(st, g) == [st EXCEPT !.cnmn1 = g.cnmn1, !.shared = FALSE, !.first = TRUE]

\* __setstate__, lines 100-104: self.cnmn1 is conmin.cnmn1 itself.
setstate(st, g) == [st EXCEPT !.shared = TRUE, !.first = TRUE]

\* ------------------------------------------------------------ state
\* self:    the driver instances.
\* conmin:  the module conmin's two common blocks.
\* stack:   the instances whose run() is on the (single) Python call stack,
\*          innermost first.
\* log:     the last two steps taken inside execute, as <<instance, step>>.
\* twin:    instance A once more, over common blocks of its own, taking
\*          each of A's steps with A's inputs and the kernel's same answers;
\*          sync says that it has been where A is after every step so far.
\* host:    what the process does with the drivers: which of them it uses,
\*          the problems it assigns, the kernel's possible answers, whether
\*          evaluations of the model can fail, whether the twin is kept,
\*          and how many runs it still starts (-1: any number).
VARIABLES self, conmin, stack, log, twin, host

vars == <<self, conmin, stack, log, twin, host>>

\* A problem: the numbers of design variables and constraints, whether an
\* objective is set, and the lengths of the two bound arrays.
Problem(n, m, o, l, u) ==
    [ndvs |-> n, ncons |-> m, objective |-> o, lower |-> l, upper |-> u]

\* Well-formed problems without bounds, the largest one with each way of
\* supplying bounds, and one problem for each configuration error.
Problems ==
    {Problem(n, m, TRUE, 0, 0) : n \in 1..MaxDvs, m \in 0..MaxCons}
    \cup {Problem(MaxDvs, MaxCons, TRUE, l, u) : l \in {0, MaxDvs}, u \in {0, MaxDvs}}
    \cup {Problem(0, 0, TRUE, 0, 0), Problem(1, 0, FALSE, 0, 0),
          Problem(MaxDvs, 0, TRUE, MaxDvs - 1, 0), Problem(MaxDvs, 0, TRUE, 0, MaxDvs - 1)}

\* The problems of the two-driver process: no bounds, no constraints.
PlainProblems == {Problem(n, 0, TRUE, 0, 0) : n \in 1..MaxDvs}

\* The problems of the processes that exercise the run rather than the
\* sizing: the smallest and the largest well-formed one, and an empty one.
RunProblems ==
    {Problem(1, 0, TRUE, 0, 0), Problem(MaxDvs, MaxCons, TRUE, 0, 0),
     Problem(0, 0, TRUE, 0, 0)}

\* One driver, every answer of the kernel, evaluations that can fail.
OneDriver ==
    [drivers |-> {"A"}, problems |-> [i \in Inst |-> RunProblems], outcomes |-> KernelOutcomes,
     faults |-> BOOLEAN, twin |-> FALSE, runs |-> -1]

\* One driver that is given every problem and runs MaxRuns times, over a
\* kernel that completes on its first call.
Resizing ==
    [drivers |-> {"A"}, problems |-> [i \in Inst |-> Problems],
     outcomes |-> {o \in KernelOutcomes : o.igoto = 0 /\ o.info # InfoGradients},
     faults |-> {FALSE}, twin |-> FALSE, runs |-> MaxRuns]

\* Two drivers and A's twin; B is given one problem, A several; MaxRuns + 1
\* runs in all.
TwoDrivers ==
    [drivers |-> {"A", "B"},
     problems |-> [i \in Inst |-> IF i = "A" THEN PlainProblems
                                  ELSE {Problem(MaxDvs, 0, TRUE, 0, 0)}],
     outcomes |-> {o \in KernelOutcomes : o.info = o.igoto},
     faults |-> {FALSE}, twin |-> TRUE, runs |-> MaxRuns + 1]

\* One driver that runs MaxRuns times, every answer of the kernel,
\* evaluations that can fail.
FewRuns == [OneDriver EXCEPT !.runs = MaxRuns]

InitWith(h) ==
    /\ host = h
    /\ conmin = ZeroBlocks
    /\ self = [i \in Inst |-> NewDriver(ZeroBlocks)]
    /\ stack = <<>>
    /\ log = <<>>
    /\ twin = [s |-> NewDriver(ZeroBlocks), g |-> ZeroBlocks, sync |-> TRUE]

Init == InitWith(OneDriver)

InitSizing == InitWith(Resizing)

InitTwo == InitWith(TwoDrivers)

InitFair == InitWith(FewRuns)

Running(i) == stack # <<>> /\ Head(stack) = i
HostTurn(i) ==
    i \in host.drivers /\ stack = <<>> /\ self[i].pc = "idle"

\* Evaluating a reference of the model may run other components, among them
\* another driver (the comment at lines 134-136).
Evaluates(s) == s.pc \in {"get_dvs", "get_obj", "get_cons"}

\* What an instance shows of itself: its record of the two blocks, its
\* working arrays, and the design variables' values in the model.
Visible(s, g) ==
    [cnmn1 |-> Cnmn1(s, g), consav |-> s.consav, design_vals |-> s.design_vals,
     lbw |-> s.lbw, ubw |-> s.ubw, constraint_vals |-> s.constraint_vals,
     gradients |-> s.gradients, b |-> s.b, c |-> s.c, ms1 |-> s.ms1, ic |-> s.ic,
     nvec |-> s.nvec, ncvec |-> s.ncvec, refs |-> s.refs]

\* The twin shows what A shows.
TwinAgrees == Visible(twin.s, twin.g) = Visible(self["A"], conmin)

\* Instance i becomes r.s and the blocks r.g; A's twin takes the same step
\* for as long as the two are at the same place of the code.
Do(i, r, t) ==
    /\ self' = [self EXCEPT ![i] = r.s]
    /\ conmin' = r.g
    /\ twin' = IF i = "A" /\ host.twin /\ twin.sync
               THEN [s |-> t.s, g |-> t.g, sync |-> t.s.pc = r.s.pc]
               ELSE twin

Logged(i, step) ==
    log' = IF log = <<>> THEN <<(<<i, step>>)>> ELSE <<log[Len(log)], <<i, step>>>>

\* Lines 118-120, either way.
execute_begin(s, g) ==
    IF s.first = TRUE THEN execute_sizing(s, g) ELSE execute_no_sizing(s, g)

\* ---- the host assigns the framework variables, one problem at a time
\* between runs; an assignment that changes a variable invalidates it
LowerChoice(len) == [k \in 1..len |-> k]
UpperChoice(len) == [k \in 1..len |-> 10 + k]

assign(s, p) ==
    [s EXCEPT !.ndvs = p.ndvs,
              !.refs = IF p.ndvs = s.ndvs THEN s.refs ELSE Zeros(p.ndvs),
              !.ncons = p.ncons,
              !.objective = p.objective,
              !.lower_bounds = LowerChoice(p.lower),
              !.upper_bounds = UpperChoice(p.upper),
              !.invalid = s.invalid
                  \cup (IF p.ndvs # s.ndvs THEN {"design_vars"} ELSE {})
                  \cup (IF p.ncons # s.ncons THEN {"constraints"} ELSE {})
                  \cup (IF p.objective # s.objective THEN {"objective"} ELSE {})
                  \cup (IF p.lower # Len(s.lower_bounds) THEN {"lower_bounds"} ELSE {})
                  \cup (IF p.upper # Len(s.upper_bounds) THEN {"upper_bounds"} ELSE {})]

Assign(i) ==
    /\ HostTurn(i)
    /\ self[i].invalid \in {{}, VarNames}
    /\ \E p \in host.problems[i] :
         /\ assign(self[i], p) # self[i]
         /\ Do(i, [s |-> assign(self[i], p), g |-> conmin],
                  [s |-> assign(twin.s, p), g |-> twin.g])
    /\ UNCHANGED <<stack, log, host>>

\* ---- pickling, by the host between runs: the driver is saved and the
\* host goes on with the restored copy
Reload(i) ==
    /\ HostTurn(i)
    /\ ~self[i].shared
    /\ Do(i, [s |-> setstate(getstate(self[i]), conmin), g |-> conmin],
             [s |-> setstate(getstate(twin.s), twin.g), g |-> twin.g])
    /\ UNCHANGED <<stack, log, host>>

\* ---- a run: run() calls _pre_execute and then execute.  The host starts
\* it, or the model does while it evaluates a reference for another driver.
StartRun(i) ==
    /\ i \in host.drivers
    /\ self[i].pc = "idle"
    /\ IF stack = <<>> THEN TRUE ELSE Evaluates(self[Head(stack)])
    /\ Do(i, [s |-> pre_execute(self[i]), g |-> conmin],
             [s |-> pre_execute(twin.s), g |-> twin.g])
    /\ stack' = <<i>> \o stack
    /\ host.runs # 0
    /\ host' = IF host.runs > 0 THEN [host EXCEPT !.runs = @ - 1] ELSE host
    /\ UNCHANGED log

\* What a run leaves on the instance once its caller has seen how it ended:
\* the record of the run is dropped, and so is its stop request.
after_run(s) ==
    [s EXCEPT !.pc = "idle", !.stop = FALSE, !.outcome = "none", !.calls = 0,
              !.dvFetch = 0, !.objFetch = 0, !.conFetch = 0, !.sizing = "none",
              !.stale = FALSE,
              !.refs0 = <<>>, !.ret = <<>>, !.script = <<>>]

Return(i) ==
    /\ Running(i) /\ self[i].pc = "ended"
    /\ Do(i, [s |-> after_run(self[i]), g |-> conmin],
             [s |-> after_run(twin.s), g |-> twin.g])
    /\ stack' = Tail(stack)
    /\ log' = <<>>
    /\ UNCHANGED host

\* The stop request (Driver.stop): it sets _stop of a driver that is running.
RequestStop(i) ==
    /\ self[i].pc \notin {"idle", "ended"}
    /\ ~self[i].stop
    /\ Do(i, [s |-> [self[i] EXCEPT !.stop = TRUE], g |-> conmin],
             [s |-> [twin.s EXCEPT !.stop = TRUE], g |-> twin.g])
    /\ UNCHANGED <<stack, log, host>>

Sizing(i) ==
    /\ Running(i) /\ self[i].pc = "execute" /\ self[i].first = TRUE
    /\ Do(i, execute_sizing(self[i], conmin), execute_begin(twin.s, twin.g))
    /\ UNCHANGED <<stack, log, host>>

SkipSizing(i) ==
    /\ Running(i) /\ self[i].pc = "execute" /\ self[i].first # TRUE
    /\ Do(i, execute_no_sizing(self[i], conmin), execute_begin(twin.s, twin.g))
    /\ UNCHANGED <<stack, log, host>>

GetDvs(i) ==
    /\ Running(i) /\ self[i].pc = "get_dvs"
    /\ \E fails \in host.faults :
         Do(i, get_dvs(self[i], conmin, fails), get_dvs(twin.s, twin.g, fails))
    /\ Logged(i, "get_dvs")
    /\ UNCHANGED <<stack, host>>

LoopHead(i) ==
    /\ Running(i) /\ self[i].pc = "loop"
    /\ Do(i, loop_head(self[i], conmin), loop_head(twin.s, twin.g))
    /\ Logged(i, "loop")
    /\ UNCHANGED <<stack, host>>

GetObj(i) ==
    /\ Running(i) /\ self[i].pc = "get_obj"
    /\ \E fails \in host.faults :
         Do(i, get_obj(self[i], conmin, fails), get_obj(twin.s, twin.g, fails))
    /\ Logged(i, "get_obj")
    /\ UNCHANGED <<stack, host>>

Load(i) ==
    /\ Running(i) /\ self[i].pc = "load"
    /\ Do(i, do_load(self[i], conmin), do_load(twin.s, twin.g))
    /\ Logged(i, "load")
    /\ UNCHANGED <<stack, host>>

\* The kernel returns igoto = 0 at the latest on call MaxCalls of a run.
Call(i) ==
    /\ Running(i) /\ self[i].pc = "call"
    /\ \E out \in host.outcomes :
         /\ self[i].calls + 1 >= MaxCalls => out.igoto = 0
         /\ Do(i, do_call(self[i], conmin, out), do_call(twin.s, twin.g, out))
    /\ Logged(i, "call")
    /\ UNCHANGED <<stack, host>>

Save(i) ==
    /\ Running(i) /\ self[i].pc = "save"
    /\ Do(i, do_save(self[i], conmin), do_save(twin.s, twin.g))
    /\ Logged(i, "save")
    /\ UNCHANGED <<stack, host>>

SetDvs(i) ==
    /\ Running(i) /\ self[i].pc = "set_dvs"
    /\ Do(i, set_dvs(self[i], conmin), set_dvs(twin.s, twin.g))
    /\ Logged(i, "set_dvs")
    /\ UNCHANGED <<stack, host>>

CheckInfo(i) ==
    /\ Running(i) /\ self[i].pc = "check_info"
    /\ Do(i, check_info(self[i], conmin), check_info(twin.s, twin.g))
    /\ UNCHANGED <<stack, log, host>>

GetCons(i) ==
    /\ Running(i) /\ self[i].pc = "get_cons"
    /\ \E fails \in host.faults :
         Do(i, get_cons(self[i], conmin, fails), get_cons(twin.s, twin.g, fails))
    /\ Logged(i, "get_cons")
    /\ UNCHANGED <<stack, host>>

Next ==
    \E i \in Inst :
        \/ Assign(i)
        \/ Reload(i)
        \/ StartRun(i)
        \/ Return(i)
        \/ RequestStop(i)
        \/ Sizing(i)
        \/ SkipSizing(i)
        \/ GetDvs(i)
        \/ LoopHead(i)
        \/ GetObj(i)
        \/ Load(i)
        \/ Call(i)
        \/ Save(i)
        \/ SetDvs(i)
        \/ CheckInfo(i)
        \/ GetCons(i)

\* One driver in the process, every answer of the kernel.
Spec == Init /\ [][Next]_vars

\* One driver in the process, every problem.
SpecSizing == InitSizing /\ [][Next]_vars

\* Two drivers in the process, and A's twin.
SpecTwo == InitTwo /\ [][Next]_vars

\* The statements of execute, one after the other.
Step(i) ==
    \/ Sizing(i) \/ SkipSizing(i) \/ GetDvs(i) \/ LoopHead(i) \/ GetObj(i)
    \/ Load(i) \/ Call(i) \/ Save(i) \/ SetDvs(i) \/ CheckInfo(i) \/ GetCons(i)

\* One driver in the process; the run that has a next statement executes
\* it: execute is sequential code whose evaluations and kernel calls return.
SpecFair == InitFair /\ [][Next]_vars /\ WF_vars(\E i \in Inst : Step(i))

\* ------------------------------------------------------------ properties
\* C1 (snapshot isolation): whatever driver B does in between, driver A
\* between runs shows what it would show had it taken the same steps alone
\* over common blocks of its own: the same record of the two blocks, the same
\* working arrays, the same values of the design variables.
C1_SnapshotIsolation ==
    (host.twin /\ twin.sync /\ self["A"].pc = "idle") => TwinAgrees

Defective(s) ==
    \/ s.ndvs < 1
    \/ ~s.objective
    \/ Len(s.lower_bounds) \notin {0, s.ndvs}
    \/ Len(s.upper_bounds) \notin {0, s.ndvs}

\* C3 (configuration errors before any kernel call): a run whose sizing was
\* given a defective problem has ended there with a configuration error
\* (RuntimeError or ValueError) and has not called the kernel; a sizing that
\* went through had a well-formed problem.
C3_ConfigErrorBeforeKernel ==
    \A i \in Inst :
        /\ (self[i].sizing # "none" /\ Defective(self[i])) =>
              /\ self[i].pc = "ended"
              /\ self[i].sizing = "failed"
              /\ self[i].outcome \in {"RuntimeError", "ValueError"}
              /\ self[i].calls = 0
        /\ self[i].sizing = "failed" => Defective(self[i])

\* A bound array of the wrong length has stopped a run.
C3_Witness ==
    /\ self["A"].outcome = "ValueError" /\ self["A"].calls = 0
    /\ Len(self["A"].upper_bounds) \notin {0, self["A"].ndvs}

\* C4 (sizing invariant): when a sizing has gone through, with n design
\* variables and m constraints, gradients has the shape (n + 2) x cap and
\* _ms1 the length 2 * max(cap, n), for cap = max(n, m + nside) + 1 and nside
\* the count this sizing has stored in the instance's record.
C4_SizingInvariant ==
    \A i \in Inst :
        (self[i].sizing = "done" /\ self[i].pc = "get_dvs") =>
            /\ self[i].gradients =
                 <<self[i].ndvs + 2,
                   NacmxOwnSide(self[i], conmin, self[i].ndvs, self[i].ncons)>>
            /\ self[i].ms1 =
                 2 * Max(NacmxOwnSide(self[i], conmin, self[i].ndvs, self[i].ncons),
                         self[i].ndvs)

\* What the design variables of the model hold once a run has written back
\* the vector of its last kernel call; what they held at its start otherwise.
LastWritten(s) == IF s.calls = 0 THEN s.refs0 ELSE SubSeq(s.ret, 1, s.ndvs)

\* A run that stopped did so at the head of the loop, and the design
\* variables hold what its last kernel call returned.
C5_Stopped ==
    \A i \in Inst :
        (self[i].pc = "ended" /\ self[i].outcome = "RunStopped") =>
            /\ self[i].refs = LastWritten(self[i])
            /\ log # <<>> /\ log[Len(log)] = <<i, "loop">>

\* The head of the loop, reached with the stop request set and another
\* kernel call due, ends the run with RunStopped.
C5_Observed ==
    \A i \in Inst :
        (LoopHead(i) /\ self[i].stop /\ Loops(self[i], conmin)) =>
            (self'[i].pc = "ended" /\ self'[i].outcome = "RunStopped")

\* C5 (cancellation): a stop request seen at the head of the loop ends the
\* run with RunStopped; nothing of the run follows, no kernel call either,
\* and the design variables hold the first n entries of the vector the last
\* kernel call of the run returned, or what they held when the run started
\* if it made no call.
C5_Cancellation == []C5_Stopped /\ [][C5_Observed]_vars

\* A run has been stopped between its first and its second kernel call.
C5_Witness ==
    /\ self["A"].pc = "ended" /\ self["A"].outcome = "RunStopped"
    /\ self["A"].calls = 1 /\ self["A"].ndvs >= 1
    /\ self["A"].refs # self["A"].refs0

\* The kernel's answers "evaluate the constraints and call again" and
\* "done".
NeedConstraints == [igoto |-> 1, info |-> InfoConstraints]
Complete == [igoto |-> 0, info |-> 0]

\* k times NeedConstraints, then Complete.
ResumeScript(sc) ==
    /\ sc # <<>>
    /\ sc[Len(sc)] = Complete
    /\ \A j \in 1..(Len(sc) - 1) : sc[j] = NeedConstraints

\* C6 as stated (resume counting): a run over a kernel that asks for the
\* constraints k times and is then done evaluates the constraints k times and
\* fetches the design variables k + 1 times.
C6_ResumeCounting ==
    \A i \in Inst :
        (self[i].pc = "ended" /\ self[i].outcome = "Finished"
            /\ ResumeScript(self[i].script)) =>
            /\ self[i].conFetch = Len(self[i].script) - 1
            /\ self[i].dvFetch = Len(self[i].script)

\* C6 amended: such a run evaluates the constraints k times and fetches the
\* design variables once, before its first kernel call.
C6_ResumeCountingAmended ==
    \A i \in Inst :
        (self[i].pc = "ended" /\ self[i].outcome = "Finished"
            /\ ResumeScript(self[i].script)) =>
            /\ self[i].conFetch = Len(self[i].script) - 1
            /\ self[i].dvFetch = 1

\* A run has finished after the kernel asked for the constraints once.
C6_Witness ==
    /\ self["A"].pc = "ended" /\ self["A"].outcome = "Finished"
    /\ self["A"].script = <<NeedConstraints, Complete>>

\* C7 (a run with nothing to resize): a run over a well-formed problem that
\* found the five variables valid and has finished has evaluated the
\* objective and called the kernel at least once.
C7_RunWithoutSizingCallsKernel ==
    \A i \in Inst :
        (self[i].pc = "ended" /\ self[i].outcome = "Finished"
            /\ self[i].sizing = "none" /\ ~Defective(self[i])) =>
            (self[i].objFetch >= 1 /\ self[i].calls >= 1)

\* C8 (gradients requested): once a kernel call has returned info = 2 and
\* execute has got to its test of info, the run has ended with
\* NotImplementedError; that call stays the last one of the run.
C8_GradientsUnsupported ==
    \A i \in Inst :
        (/\ self[i].script # <<>>
         /\ self[i].script[Len(self[i].script)].info = InfoGradients
         /\ self[i].pc \notin {"save", "set_dvs", "check_info"}) =>
            (self[i].pc = "ended" /\ self[i].outcome = "NotImplementedError")

\* A run has ended because its second kernel call asked for gradients.
C8_Witness ==
    /\ self["A"].pc = "ended" /\ self["A"].outcome = "NotImplementedError"
    /\ Len(self["A"].script) = 2

\* The instance's record of the two common blocks.
Record(s, g) == [cnmn1 |-> Cnmn1(s, g), consav |-> s.consav]

\* C9 as stated (collaborator failure): when an evaluation of the model has
\* failed, the run has ended there with that exception and the instance's
\* record is, field for field, what its last completed kernel call left.
C9_FailureKeepsRecord ==
    \A i \in Inst :
        (self[i].pc = "ended" /\ self[i].outcome = "CollaboratorError"
            /\ self[i].kept # <<>>) =>
            Record(self[i], conmin) = self[i].kept[1]

\* C9 amended: the same for a failure that follows a kernel call of the same
\* run; and a failure that ends a run has been the last step of the run.
C9_FailureKeepsRecordAmended ==
    \A i \in Inst :
        (self[i].pc = "ended" /\ self[i].outcome = "CollaboratorError") =>
            /\ log # <<>>
            /\ log[Len(log)] \in {<<i, "get_dvs">>, <<i, "get_obj">>, <<i, "get_cons">>}
            /\ self[i].calls >= 1 => Record(self[i], conmin) = self[i].kept[1]

\* The evaluation of the constraints has failed after a kernel call.
C9_Witness ==
    /\ self["A"].pc = "ended" /\ self["A"].outcome = "CollaboratorError"
    /\ self["A"].calls >= 1
    /\ log[Len(log)] = <<"A", "get_cons">>

\* C10 (the record is the instance's own): a step that leaves an instance
\* as it is leaves the instance's record of cnmn1 as it is, whatever the
\* step writes to the common blocks or to another instance.
C10_RecordIsPrivate ==
    [][\A i \in Inst :
          self'[i] = self[i] => Cnmn1(self'[i], conmin') = Cnmn1(self[i], conmin)]_vars

\* C11 (write-back of the design variables): once a kernel call of the run
\* has returned and line 160 has run, the n design variables of the model hold
\* the first n entries of the vector of n + 2 entries that the run's latest
\* kernel call returned, and no more than those n; so they do when the run
\* has finished.
C11_WriteBack ==
    \A i \in Inst :
        (self[i].calls >= 1 /\ self[i].pc \notin {"save", "set_dvs"}) =>
            /\ Len(self[i].ret) = self[i].ndvs + 2
            /\ Len(self[i].refs) = self[i].ndvs
            /\ \A k \in 1..self[i].ndvs : self[i].refs[k] = self[i].ret[k]

\* A run over MaxDvs design variables has finished after a single kernel
\* call that reported completion.
C11_Witness ==
    /\ self["A"].pc = "ended" /\ self["A"].outcome = "Finished"
    /\ self["A"].script = <<Complete>> /\ self["A"].ndvs = MaxDvs
    /\ self["A"].refs = SubSeq(self["A"].ret, 1, MaxDvs)

\* The working array that a sizing over n design variables is to make of a
\* bound: n + 2 entries, the supplied values or else the sentinel in the
\* first n, zero in the last two.
IsBoundArray(w, bounds, n, sentinel) ==
    /\ Len(w) = n + 2
    /\ w[n + 1] = 0 /\ w[n + 2] = 0
    /\ \A k \in 1..n : w[k] = IF Len(bounds) > 0 THEN bounds[k] ELSE sentinel

C13_SideCount ==
    \A i \in Inst :
        self[i].sizing = "done" =>
            Cnmn1(self[i], conmin).nside =
                IF Len(self[i].lower_bounds) > 0 \/ Len(self[i].upper_bounds) > 0
                THEN 2 * self[i].ndvs ELSE 0

\* C14 as stated (what follows a kernel call): a kernel call of a run is
\* followed by another one only if it returned info = 1, the request for the
\* constraints.
C14_ResumeOnlyForConstraints ==
    \A i \in Inst :
        \A j \in 1..(Len(self[i].script) - 1) :
            self[i].script[j].info = InfoConstraints

\* C14 amended: a kernel call is followed by another one only if it returned
\* igoto # 0 and did not ask for gradients, whatever else info was; a run
\* that has finished had igoto = 0 from its last call, and has evaluated the
\* constraints once for every call that returned info = 1, the last call
\* included.
C14_ResumeOnIgoto ==
    \A i \in Inst :
        /\ \A j \in 1..(Len(self[i].script) - 1) :
              /\ self[i].script[j].igoto # 0
              /\ self[i].script[j].info # InfoGradients
        /\ (self[i].pc = "ended" /\ self[i].outcome = "Finished"
              /\ self[i].script # <<>>) =>
              /\ self[i].script[Len(self[i].script)].igoto = 0
              /\ self[i].script[Len(self[i].script)].info # InfoGradients
              /\ self[i].conFetch =
                   Cardinality({j \in 1..Len(self[i].script) :
                                   self[i].script[j].info = InfoConstraints})

\* A run has finished whose first call asked for nothing and was followed by
\* a second, and whose second asked for the constraints and was the last.
C14_Witness ==
    /\ self["A"].pc = "ended" /\ self["A"].outcome = "Finished"
    /\ self["A"].script = <<[igoto |-> 1, info |-> 0], [igoto |-> 0, info |-> InfoConstraints]>>
    /\ self["A"].conFetch = 1

\* A run that is under way has sized if and only if it found one of the
\* five variables invalid when it started.
C15_SizedIffStale ==
    \A i \in Inst :
        self[i].pc \notin {"idle", "execute"} =>
            (self[i].sizing # "none" <=> self[i].stale)

\* A step that sizes is the first of execute: the run has not sized before
\* and has made no kernel call.
C15_SizedAtStart ==
    \A i \in Inst :
        (self'[i].sizing # self[i].sizing /\ self'[i].sizing # "none") =>
            /\ self[i].pc = "execute" /\ self[i].sizing = "none"
            /\ self[i].calls = 0

\* C15 (when sizing happens): a run sizes if and only if objective,
\* constraints, design_vars, upper_bounds or lower_bounds is invalid when it
\* starts; it then does so once, before its first kernel call, and never
\* between two kernel calls.
C15_SizingTrigger == []C15_SizedIffStale /\ [][C15_SizedAtStart]_vars

\* A run that started with only lower_bounds invalid has sized and then
\* called the kernel.
C15_Witness ==
    /\ self["A"].sizing = "done" /\ self["A"].stale /\ self["A"].calls = 1
    /\ Len(self["A"].lower_bounds) = MaxDvs

\* C16 (an instance's calls follow one another): when an instance has loaded
\* its record for a kernel call that is not the first of the run, what it has
\* loaded is, field for field, what its previous kernel call left and it then
\* saved, whatever other instances did in between.  The objective value
\* obj, which execute stores in the record before every load (line 137), is
\* left out of the comparison.
C16_LoadsWhatItSaved ==
    \A i \in Inst :
        (self[i].pc = "call" /\ self[i].calls >= 1) =>
            [conmin EXCEPT !.cnmn1.obj = self[i].kept[1].cnmn1.obj] = self[i].kept[1]

\* The same problem and the same iprint and maxiters, sized by a new driver
\* in a process whose common blocks nothing has touched.
SizedAlone(s) ==
    config_conmin([NewDriver(ZeroBlocks) EXCEPT
                      !.ndvs = s.ndvs, !.ncons = s.ncons, !.objective = s.objective,
                      !.lower_bounds = s.lower_bounds, !.upper_bounds = s.upper_bounds,
                      !.iprint = s.iprint, !.maxiters = s.maxiters],
                  ZeroBlocks).s

\* The shapes of the working arrays.
Shapes(s) ==
    [design_vals |-> Len(s.design_vals), lbw |-> Len(s.lbw), ubw |-> Len(s.ubw),
     constraint_vals |-> Len(s.constraint_vals), gradients |-> s.gradients,
     b |-> s.b, c |-> s.c, ms1 |-> s.ms1, ic |-> s.ic, nvec |-> s.nvec,
     ncvec |-> s.ncvec]

\* The fields of cnmn1 that a sizing assigns: all but obj.
Scalars(c) == [c EXCEPT !.obj = 0]

\* C17 (sizing depends on the problem alone): when a sizing has gone
\* through, the shapes of the working arrays and the configuration scalars
\* in the instance's record are those that any sizing of the same problem
\* with the same iprint and maxiters gives, whatever the common blocks held.
C17_SizingDeterminism ==
    \A i \in Inst :
        (self[i].sizing = "done" /\ self[i].pc = "get_dvs") =>
            /\ Shapes(self[i]) = Shapes(SizedAlone(self[i]))
            /\ Scalars(Cnmn1(self[i], conmin)) = Scalars(SizedAlone(self[i]).cnmn1)

\* C18 (consav starts clean after a sizing): when an instance that has sized
\* in this run is about to make the run's first kernel call, every field of
\* the common block consav is zero, the two pairs <<0, 0>>, whatever earlier
\* kernel calls left in the block or in the instance's record.
C18_CleanConsav ==
    \A i \in Inst :
        (self[i].pc = "call" /\ self[i].calls = 0 /\ self[i].sizing = "done") =>
            conmin.consav = ZeroConsav

\* An instance whose last kernel call left values in consav has sized again
\* and is about to call the kernel.
C18_Witness ==
    /\ self["A"].pc = "call" /\ self["A"].calls = 0 /\ self["A"].sizing = "done"
    /\ self["A"].kept # <<>>
    /\ self["A"].kept[1].consav.kcount > 0
    /\ conmin.consav = ZeroConsav

\* Load and then save leaves the instance's record as it was; save and then
\* load leaves the common blocks as they were.
RoundTrips(s, g) ==
    /\ Record(save_common_blocks(s, load_common_blocks(s, g)), load_common_blocks(s, g))
         = Record(s, g)
    /\ load_common_blocks(save_common_blocks(s, g), g) = g

TerminalOutcomes ==
    {"Finished", "RunStopped", "NotImplementedError", "RuntimeError", "ValueError",
     "CollaboratorError"}

\* A run has an outcome exactly when it has ended, the outcome is one of
\* the terminal ones, and the loop has not gone round without a kernel call.
C20_OneOutcome ==
    \A i \in Inst :
        /\ self[i].outcome # "none" <=> self[i].pc = "ended"
        /\ self[i].pc = "ended" => self[i].outcome \in TerminalOutcomes
        /\ self[i].objFetch <= self[i].calls + 1

\* C20 (a run ends): with a kernel that returns igoto = 0 after finitely
\* many calls and evaluations that return or raise, every run that has
\* started comes to an end, with exactly one outcome: Finished, RunStopped,
\* NotImplementedError, a configuration error or the failure of an
\* evaluation; it does not go on after that, and every turn of its loop
\* calls the kernel.
C20_RunTermination ==
    /\ []C20_OneOutcome
    /\ \A i \in Inst : (self[i].pc = "execute") ~> (self[i].pc = "ended")

\* A run has finished after as many kernel calls as the kernel asked for.
C20_Witness ==
    /\ self["A"].pc = "ended" /\ self["A"].outcome = "Finished"
    /\ self["A"].calls = MaxCalls

\* A run that was stopped has evaluated the objective as often as it has
\* called the kernel: the turn of the loop in which it stopped did neither.
C21_NoWorkWhenStopped ==
    \A i \in Inst :
        (self[i].pc = "ended" /\ self[i].outcome = "RunStopped") =>
            self[i].objFetch = self[i].calls

\* The head of the loop, reached with the stop request set and the loop
\* condition true, ends the run there: the objective is not evaluated, the
\* common blocks and the instance's record are not written, the kernel is
\* not called.
C21_StopFirst ==
    \A i \in Inst :
        (LoopHead(i) /\ self[i].stop /\ Loops(self[i], conmin)) =>
            /\ self'[i].pc = "ended" /\ self'[i].outcome = "RunStopped"
            /\ self'[i].objFetch = self[i].objFetch
            /\ self'[i].calls = self[i].calls
            /\ conmin' = conmin
            /\ Record(self'[i], conmin') = Record(self[i], conmin)

\* C21 (the stop request is tested first): in every turn of the loop, the
\* first one after a sizing included, _stop is tested before the objective
\* is evaluated and before the record is loaded; when it is set, that turn
\* evaluates no objective, loads nothing and makes no kernel call.
C21_StopPolledFirst == []C21_NoWorkWhenStopped /\ [][C21_StopFirst]_vars

\* A run was stopped in its first turn of the loop, right after its sizing.
C21_Witness ==
    /\ self["A"].pc = "ended" /\ self["A"].outcome = "RunStopped"
    /\ self["A"].sizing = "done"
    /\ self["A"].calls = 0 /\ self["A"].objFetch = 0 /\ self["A"].dvFetch = 1

====
